---------------------------- MODULE Spec2Model ----------------------------
(***************************************************************************)
(* Model of the initialization and concurrency-control core of             *)
(* wdk-react-native-core:                                                  *)
(*   - useMutex                       (src/src/hooks/useWallet.ts)         *)
(*   - WorkletLifecycleService        (src/src/services/...)               *)
(*   - WdkAppProvider, useWalletManager                                    *)
(* JavaScript is single threaded: an action of the model is one run of     *)
(* synchronous code, from a call or a promise continuation up to the next  *)
(* await.                                                                  *)
(***************************************************************************)
EXTENDS Integers, Sequences, FiniteSets, TLC

\* ------------------------------------------------------------------ bounds
\* number of acquire() calls issued on one mutex instance
MaxCalls == 4
\* number of startWorklet() calls that can be pending at once
MaxStartCalls == 2
\* number of initializeWDK() calls that can be pending at once
MaxInitCalls == 2
\* number of provider / wallet-manager calls that can be pending at once
MaxWalletCalls == 2
\* number of switchToWallet calls of one useWallet instance that can be pending at once
MaxSwitchRuns == 2
MaxFetchCalls == 2
MaxListLen == 2
MaxRefreshCalls == 2

Calls == 1..MaxCalls
SProcs == 1..MaxStartCalls
IProcs == 1..MaxInitCalls
\* the (encryptionKey, encryptedSeed) pairs callers pass; 0 stands for null
Creds == {1, 2}
WProcs == 1..MaxWalletCalls
URuns == 1..MaxSwitchRuns
FProcs == 1..MaxFetchCalls
TProcs == 1..MaxRefreshCalls
\* wallet identifiers; "none" stands for null
Ids == {"alice", "bob"}
\* the stored (encryptionKey, encryptedSeed) pair of a wallet
CredOf(id) == IF id = "alice" THEN 1 ELSE 2
\* AUTH_ERROR_COOLDOWN_MS
AUTH_ERROR_COOLDOWN_MS == 3000
\* granularity of the clock
ClockStep == AUTH_ERROR_COOLDOWN_MS \div 2

VARIABLES
  \* ---- useMutex (one instance)
  queueOpt,    \* options.queue
  lockedRef,   \* lockedRef.current
  queueRef,    \* queueRef.current: the queued wrappers, by call
  nextCall,    \* the next acquire() call to be issued (calls are numbered in issue order)
  mpc,         \* where each acquire() call is
  viaQueue,    \* whether the operation body was started by processQueue
  outcome,     \* how the operation body ended: "none" | "ok" | "throw"
  result,      \* the promise acquire() returned: "pending" | "resolved" | "rejected"
  \* ---- workletStore state (written by WorkletLifecycleService)
  hrpc,              \* worklet / hrpc / ipc handles: 0 = null, else the start call that made them
  isWorkletStarted,
  isInitialized,
  isLoading,
  error,             \* "none" (null) | "start" | "init": which operation's message it holds
  cred,              \* encryptionKey / encryptedSeed: 0 = null
  \* ---- calls of WorkletLifecycleService in flight
  spc,               \* each startWorklet call: "idle" | "awaitImport" | "awaitStart"
  ipc,               \* the initializeWDK calls, pending ones first in issue order:
                     \* "idle" | "awaitInit"
  icred,             \* the credentials each initializeWDK call was given
  cpc,               \* cleanup(): "idle" | "awaitCleanup"
  \* ---- WdkAppProvider's worklet-start effect
  effDeps,           \* the dependency values the effect last ran with (<<>>: not run yet)
  effCleanup,        \* whether the last run of the effect returned a cleanup function
  cancelledRef,      \* cancelledRef.current
  \* ---- history
  lastOp,            \* the last operation invoked on the service and how it began
                     \* (for cleanup(), once it has settled: how it settled)
  soleStart,         \* the startWorklet call that began with nothing in flight and
                     \* since which only startWorklet was called (0: none)
  \* ---- WdkAppProvider / useWalletManager
  walletState,       \* the provider's reducer state
  activeWalletId,    \* walletStore.activeWalletId ("none": null)
  authErrorAge,      \* Date.now() - lastAuthErrorRef.current, saturating (-1: the ref is null)
  hasStored,         \* secure storage: whether a wallet is stored for an identifier
  credCache,         \* WalletSetupService's credentials cache: the identifiers cached
  wpc,               \* each loadExisting / createNew / switchWallet / deleteWallet call
  wkind,             \* which operation the call is: "load" | "create" | "switch" | "delete"
  wid,               \* the identifier the call was given
  wsnap,             \* the walletState the call's closure captured
  werr,              \* the failure the call is handling: "none" | "auth" | "decrypt" | "other"
  nextW,             \* the next wallet call to be issued (calls are numbered in issue order)
  settled,           \* the provider call that settled last, and how it settled
  \* ---- AddressService.getAddress, for one network and account index
  addresses,         \* walletStore.addresses[network][accountIndex]
  apc,               \* the getAddress call: "idle" | "awaitRpc"
  lastRead,          \* what the last getAddress call returned, and how
  issuedWhile,       \* activeWalletId when the pending getAddress was issued
  \* ---- calls of the pure functions
  fn,                \* the function called last ("none": none yet)
  fnArgs,            \* its arguments
  fnResult,          \* its result
  \* ---- useWallet (one instance): the switching effect
  reqWalletId,         \* options.walletId ("none": undefined)
  isSwitchingWallet,
  switchingToWalletId, \* "none": null
  switchWalletError,   \* "none" (null) | "failed"
  isTemporaryWallet,
  uDeps,               \* the dependency values the effect last ran with (<<>>: not run yet)
  uCleanup,            \* the run whose `cancelled` the last run's cleanup function sets (0: none)
  upc,                 \* each run of the effect that called switchToWallet: "idle" | "awaitSwitch"
  ucancelled,          \* the run's `cancelled` variable
  utarget,             \* the run's requestedWalletId
  \* ---- useWdkBalanceSync, one mounted instance of the hook
  bProps,              \* the hook's arguments at the last render
  bDepsAuto,           \* dependencies of the last run of the initial-fetch effect
  bDepsInterval,       \* dependencies of the last run of the interval effect
  interval,            \* TRUE while the setInterval timer of the effect is live
  isFetchingRef,       \* isFetchingRef.current
  isMountedRef,        \* isMountedRef.current
  hasCompletedInitialBalanceFetch,
  isFetchingBalances,  \* the hook's state
  fpc,                 \* fpc[f]: who awaits fetchAllBalances call f, or "idle"
  \* ---- useWalletManager: the wallet list
  walletList,          \* walletStore.walletList, a sequence of WalletInfo
  rpc,                 \* the refreshWalletList call: "idle" | "awaitCheck"
  rActive,             \* its currentActiveId
  rKnown,              \* its knownIdentifiers
  kpc,                 \* the createWallet call: "idle" | "awaitCheck" | "awaitCreate"
  kid,                 \* its walletIdentifier
  \* ---- useWallet.refreshTransactions and TransactionService, for one wallet
  transactionLoading,  \* the keys of walletStore.transactionLoading[walletId]
  tpc,                 \* tpc[t]: refreshTransactions call t, "idle" | "awaitTxns"
  trest,               \* trest[t]: the networks it has still to fetch, first the awaited one
  taddrs               \* taddrs[t]: the networks with an address in its `addresses`

mutexVars == <<queueOpt, lockedRef, queueRef, nextCall, mpc, viaQueue, outcome, result>>
storeVars == <<hrpc, isWorkletStarted, isInitialized, isLoading, error, cred>>
effectVars == <<effDeps, effCleanup, cancelledRef>>
runtimeVars == <<storeVars, spc, ipc, icred, cpc, effectVars, lastOp, soleStart>>

frameVars == <<wpc, wkind, wid, wsnap, werr>>
callVars == <<frameVars, nextW, settled>>
walletVars == <<walletState, activeWalletId, authErrorAge, hasStored, credCache, callVars>>

addrVars == <<addresses, apc, lastRead, issuedWhile>>
pureVars == <<fn, fnArgs, fnResult>>

switchVars == <<reqWalletId, isSwitchingWallet, switchingToWalletId, switchWalletError,
                isTemporaryWallet, uDeps, uCleanup, upc, ucancelled, utarget>>

\* useWdkBalanceSync
balVars == <<bProps, bDepsAuto, bDepsInterval, interval, isFetchingRef, isMountedRef,
             hasCompletedInitialBalanceFetch, isFetchingBalances, fpc>>
\* useWalletManager: the wallet list and the calls that rebuild or extend it
listCallVars == <<rpc, rActive, rKnown, kpc, kid>>
listVars == <<walletList, listCallVars>>
\* useWallet.refreshTransactions
txVars == <<transactionLoading, tpc, trest, taddrs>>
hookVars == <<balVars, listVars, txVars>>

vars == <<mutexVars, runtimeVars, walletVars, addrVars, pureVars, switchVars, hookVars>>

\* ================================================================ useMutex

InitMutex ==
  /\ queueOpt \in BOOLEAN
  /\ lockedRef = FALSE
  /\ queueRef = <<>>
  /\ nextCall = 1
  /\ mpc = [c \in Calls |-> "idle"]
  /\ viaQueue = [c \in Calls |-> FALSE]
  /\ outcome = [c \in Calls |-> "none"]
  /\ result = [c \in Calls |-> "pending"]

\* acquireFn, line 492: the call is queued
ShouldQueueAlways(queue, locked) == locked
ShouldQueue(queue, locked) == queue /\ locked

\* acquireFn, lines 507-511: the operation is run directly
CanRunDirectAlways(locked) == TRUE
CanRunDirect(locked) == ~locked

\* acquireFn, lines 512-519: lockedRef.current after the try/catch/finally
LockedAfterDirectNoFinally(o) == (o = "throw")
LockedAfterDirect(o) == FALSE

\* acquireFn, lines 512-519: how the promise settles after the operation body
SettleOf(o) == IF o = "throw" THEN "rejected" ELSE "resolved"

\* processQueue, lines 467-489, up to its await: the lock, the queue and the
\* wrapper it starts (0: none)
ProcessQueue(locked, queue) ==
  IF Len(queue) = 0 \/ locked
  THEN [locked |-> locked, queue |-> queue, next |-> 0]
  ELSE [locked |-> TRUE, queue |-> Tail(queue), next |-> Head(queue)]

\* acquire(fn), synchronous part (lines 491-513)
Acquire(c) ==
  /\ c = nextCall
  /\ mpc[c] = "idle"
  /\ nextCall' = nextCall + 1
  /\ IF ShouldQueue(queueOpt, lockedRef)
     THEN LET pq == ProcessQueue(lockedRef, Append(queueRef, c))
          IN /\ lockedRef' = pq.locked
             /\ queueRef' = pq.queue
             /\ mpc' = [d \in Calls |->
                          IF d = pq.next THEN "running"
                          ELSE IF d = c THEN "queued" ELSE mpc[d]]
             /\ viaQueue' = [d \in Calls |-> IF d = pq.next THEN TRUE ELSE viaQueue[d]]
             /\ UNCHANGED result
     ELSE IF CanRunDirect(lockedRef)
     THEN /\ lockedRef' = TRUE
          /\ mpc' = [mpc EXCEPT ![c] = "running"]
          /\ UNCHANGED <<queueRef, viaQueue, result>>
     ELSE /\ mpc' = [mpc EXCEPT ![c] = "settled"]
          /\ result' = [result EXCEPT ![c] = "resolved"]
          /\ UNCHANGED <<lockedRef, queueRef, viaQueue>>
  /\ UNCHANGED <<queueOpt, outcome>>
  /\ UNCHANGED <<runtimeVars, walletVars, addrVars, pureVars, switchVars, hookVars>>

\* the operation body fn() ends, resolving or throwing
BodyEnd(c) ==
  /\ mpc[c] = "running"
  /\ \E o \in {"ok", "throw"} : outcome' = [outcome EXCEPT ![c] = o]
  /\ mpc' = [mpc EXCEPT ![c] = "bodyDone"]
  /\ UNCHANGED <<queueOpt, lockedRef, queueRef, nextCall, viaQueue, result>>
  /\ UNCHANGED <<runtimeVars, walletVars, addrVars, pureVars, switchVars, hookVars>>

\* the continuation after `await fn()`: acquireFn's finally (lines 514-519), or
\* for a queued wrapper lines 496-501 and processQueue's catch/finally (478-485)
Finally(c) ==
  /\ mpc[c] = "bodyDone"
  /\ result' = [result EXCEPT ![c] = SettleOf(outcome[c])]
  /\ IF viaQueue[c]
     THEN LET pq == ProcessQueue(FALSE, queueRef)
          IN /\ lockedRef' = pq.locked
             /\ queueRef' = pq.queue
             /\ mpc' = [d \in Calls |->
                          IF d = pq.next THEN "running"
                          ELSE IF d = c THEN "settled" ELSE mpc[d]]
             /\ viaQueue' = [d \in Calls |-> IF d = pq.next THEN TRUE ELSE viaQueue[d]]
     ELSE /\ lockedRef' = LockedAfterDirect(outcome[c])
          /\ mpc' = [mpc EXCEPT ![c] = "settled"]
          /\ UNCHANGED <<queueRef, viaQueue>>
  /\ UNCHANGED <<queueOpt, nextCall, outcome>>
  /\ UNCHANGED <<runtimeVars, walletVars, addrVars, pureVars, switchVars, hookVars>>

NextMutex ==
  \/ \E c \in Calls : Acquire(c)
  \/ \E c \in Calls : BodyEnd(c)
  \/ \E c \in Calls : Finally(c)


\* ================================================= WorkletLifecycleService

InitRuntime ==
  /\ hrpc = 0
  /\ isWorkletStarted = FALSE
  /\ isInitialized = FALSE
  /\ isLoading = FALSE
  /\ error = "none"
  /\ cred = 0
  /\ spc = [p \in SProcs |-> "idle"]
  /\ ipc = [i \in IProcs |-> "idle"]
  /\ icred = [i \in IProcs |-> 0]
  /\ cpc = "idle"
  /\ effDeps = <<>>
  /\ effCleanup = FALSE
  /\ cancelledRef = FALSE
  /\ lastOp = "none"
  /\ soleStart = 0

NothingInFlight ==
  /\ \A p \in SProcs : spc[p] = "idle"
  /\ \A i \in IProcs : ipc[i] = "idle"
  /\ cpc = "idle"

\* startWorklet, lines 104-112: the two early returns
StartReturnsEarlyNoLoadingCheck(loading, started) == started
StartReturnsEarly(loading, started) == loading \/ started

\* initializeWDK, lines 188-190: the precondition that throws
InitPreconditionFails(started, h) == ~started \/ h = 0

\* initializeWDK, lines 192-199: already initialized with the same pair
InitIsNoOp(initialized, stored, given) == initialized /\ stored = given

\* startWorklet up to its first suspension (lines 101-129).  The await of
\* cleanupWorkletResources (line 123) writes nothing to the store and is folded
\* into this step.
StartSync(p) ==
  /\ spc[p] = "idle"
  /\ IF StartReturnsEarly(isLoading, isWorkletStarted)
     THEN /\ lastOp' = "start:noop"
          /\ UNCHANGED <<storeVars, spc, soleStart>>
     ELSE /\ lastOp' = "start:began"
          /\ error' = "none"
          /\ isLoading' = TRUE
          /\ spc' = [spc EXCEPT ![p] = "awaitImport"]
          /\ soleStart' = IF NothingInFlight THEN p ELSE soleStart
          /\ UNCHANGED <<hrpc, isWorkletStarted, isInitialized, cred>>
  /\ UNCHANGED <<ipc, icred, cpc>>

\* startWorklet's catch block (lines 161-176)
StartFailed(p) ==
  /\ error' = "start"
  /\ isLoading' = FALSE
  /\ hrpc' = 0
  /\ isWorkletStarted' = FALSE
  /\ spc' = [spc EXCEPT ![p] = "idle"]
  /\ soleStart' = IF soleStart = p THEN 0 ELSE soleStart
  /\ UNCHANGED <<isInitialized, cred>>

\* a caller invokes startWorklet(networkConfigs); the call takes the lowest
\* idle slot
StartWorkletCall(p) ==
  /\ \A q \in SProcs : q < p => spc[q] # "idle"
  /\ StartSync(p)
  /\ UNCHANGED effectVars
  /\ UNCHANGED <<mutexVars, walletVars, addrVars, pureVars, switchVars, hookVars>>

\* the dynamic import resolves (lines 129-147): the bundle or the IPC is missing
\* and the call fails, or the workletStart RPC is issued
StartImportDone(p) ==
  /\ spc[p] = "awaitImport"
  /\ \E ok \in BOOLEAN :
       IF ok
       THEN /\ spc' = [spc EXCEPT ![p] = "awaitStart"]
            /\ UNCHANGED <<storeVars, soleStart>>
       ELSE StartFailed(p)
  /\ UNCHANGED <<ipc, icred, cpc, effectVars, lastOp>>
  /\ UNCHANGED <<mutexVars, walletVars, addrVars, pureVars, switchVars, hookVars>>

\* the workletStart RPC settles (lines 147-176)
StartRpcDone(p) ==
  /\ spc[p] = "awaitStart"
  /\ \E ok \in BOOLEAN :
       IF ok
       THEN /\ hrpc' = p
            /\ isWorkletStarted' = TRUE
            /\ isLoading' = FALSE
            /\ error' = "none"
            /\ spc' = [spc EXCEPT ![p] = "idle"]
            /\ soleStart' = IF soleStart = p THEN 0 ELSE soleStart
            /\ UNCHANGED <<isInitialized, cred>>
       ELSE StartFailed(p)
  /\ UNCHANGED <<ipc, icred, cpc, effectVars, lastOp>>
  /\ UNCHANGED <<mutexVars, walletVars, addrVars, pureVars, switchVars, hookVars>>

\* initializeWDK, lines 201-205: the store write before the RPC
InitWDKBegin ==
  /\ error' = "none"
  /\ isLoading' = TRUE
  /\ UNCHANGED <<hrpc, isWorkletStarted, isInitialized, cred>>

\* initializeWDK, lines 226-233: the store write after the RPC resolved
InitWDKSucceeded(k) ==
  /\ isInitialized' = TRUE
  /\ isLoading' = FALSE
  /\ cred' = k
  /\ error' = "none"
  /\ UNCHANGED <<hrpc, isWorkletStarted>>

\* initializeWDK's catch block, lines 234-246
InitWDKFailed ==
  /\ error' = "init"
  /\ isLoading' = FALSE
  /\ isInitialized' = FALSE
  /\ UNCHANGED <<hrpc, isWorkletStarted, cred>>

\* a caller invokes initializeWDK({encryptionKey, encryptedSeed}) (lines 182-217);
\* the call takes the lowest idle slot
InitializeWDKCall(i, k) ==
  /\ ipc[i] = "idle"
  /\ \A j \in IProcs : j < i => ipc[j] # "idle"
  /\ soleStart' = 0
  /\ IF InitPreconditionFails(isWorkletStarted, hrpc)
     THEN /\ lastOp' = "init:throw"
          /\ UNCHANGED <<storeVars, ipc, icred>>
     ELSE IF InitIsNoOp(isInitialized, cred, k)
     THEN /\ lastOp' = "init:noop"
          /\ UNCHANGED <<storeVars, ipc, icred>>
     ELSE /\ lastOp' = "init:began"
          /\ InitWDKBegin
          /\ ipc' = [ipc EXCEPT ![i] = "awaitInit"]
          /\ icred' = [icred EXCEPT ![i] = k]
  /\ UNCHANGED <<spc, cpc, effectVars>>
  /\ UNCHANGED <<mutexVars, walletVars, addrVars, pureVars, switchVars, hookVars>>

\* the pending calls `f` without call i: the later ones move up
Without(f, i, idle) ==
  [j \in IProcs |-> IF j < i THEN f[j]
                    ELSE IF j < MaxInitCalls THEN f[j + 1] ELSE idle]

\* the initializeWDK RPC settles (lines 213-246)
InitializeWDKDone(i) ==
  /\ ipc[i] = "awaitInit"
  /\ \E ok \in BOOLEAN :
       IF ok THEN InitWDKSucceeded(icred[i]) ELSE InitWDKFailed
  /\ ipc' = Without(ipc, i, "idle")
  /\ icred' = Without(icred, i, 0)
  /\ UNCHANGED <<spc, cpc, effectVars, lastOp, soleStart>>
  /\ UNCHANGED <<mutexVars, walletVars, addrVars, pureVars, switchVars, hookVars>>

\* a clearing of the workletStore that keeps the credentials
ClearWorkletStoreKeepsCredentials ==
  /\ hrpc' = 0
  /\ isWorkletStarted' = FALSE
  /\ isInitialized' = FALSE
  /\ isLoading' = FALSE
  /\ error' = "none"
  /\ cred' = cred

\* the workletStore part of cleanup() and reset() (lines 393-406, 426-439)
ClearWorkletStore ==
  /\ hrpc' = 0
  /\ isWorkletStarted' = FALSE
  /\ isInitialized' = FALSE
  /\ isLoading' = FALSE
  /\ error' = "none"
  /\ cred' = 0

\* an address cache entry: whose address it is, and the wallet that was
\* active when it was cached
Address(owner, active) == [of |-> owner, while |-> active]
NoAddress == Address("none", "none")

\* the walletStore.setState of reset() and cleanup() (lines 407-414, 440-447)
ClearWalletStore == addresses' = NoAddress

\* reset() (lines 422-449)
Reset ==
  /\ ClearWorkletStore
  /\ ClearWalletStore
  /\ lastOp' = "reset"
  /\ soleStart' = 0
  /\ UNCHANGED <<spc, ipc, icred, cpc, effectVars>>
  /\ UNCHANGED <<mutexVars, walletVars, apc, lastRead, issuedWhile, pureVars, switchVars, hookVars>>

\* cleanup() up to `await this.cleanupWorkletResources` (lines 383-390)
CleanupCall ==
  /\ cpc = "idle"
  /\ cpc' = "awaitCleanup"
  /\ lastOp' = "cleanup"
  /\ soleStart' = 0
  /\ UNCHANGED <<storeVars, spc, ipc, icred, effectVars>>
  /\ UNCHANGED <<mutexVars, walletVars, addrVars, pureVars, switchVars, hookVars>>

\* how cleanup()'s promise settles when tearing down the channel ended as
\* `teardown`: cleanupWorkletResources catches what the teardown throws
\* (lines 90-93) and cleanup() goes on
CleanupSettles(teardown) ==
  IF teardown = "throw" THEN "cleanup:swallowed" ELSE "cleanup:resolved"

\* cleanupWorkletResources settles and cleanup() runs to its end (lines 66-94,
\* 392-415)
CleanupDone ==
  /\ cpc = "awaitCleanup"
  /\ cpc' = "idle"
  /\ ClearWorkletStore
  /\ soleStart' = 0
  /\ ClearWalletStore
  /\ \E teardown \in {"ok", "throw"} : lastOp' = CleanupSettles(teardown)
  /\ UNCHANGED <<spc, ipc, icred, effectVars>>
  /\ UNCHANGED <<mutexVars, walletVars, apc, lastRead, issuedWhile, pureVars, switchVars, hookVars>>

\* clearError() (lines 454-457)
ClearError ==
  /\ error' = "none"
  /\ lastOp' = "clearError"
  /\ soleStart' = 0
  /\ UNCHANGED <<hrpc, isWorkletStarted, isInitialized, isLoading, cred>>
  /\ UNCHANGED <<spc, ipc, icred, cpc, effectVars>>
  /\ UNCHANGED <<mutexVars, walletVars, addrVars, pureVars, switchVars, hookVars>>

\* ====================================== WdkAppProvider: worklet-start effect

\* the effect's dependencies that change (WdkAppProvider.tsx line 288)
EffectDeps == <<isInitialized, isLoading, isWorkletStarted>>

\* lines 251-261: the effect returns without starting the worklet
EffectSkips(loading, started, initialized) == loading \/ started \/ initialized

\* The effect of lines 244-288 runs after a render in which a dependency
\* changed: the previous run's cleanup first (lines 285-287), then the body,
\* which calls startWorklet (line 268) unless it is skipped.
\* The call takes the lowest idle slot: slots only name invocations.
WorkletStartEffect ==
  /\ effDeps # EffectDeps
  /\ effDeps' = EffectDeps
  /\ IF EffectSkips(isLoading, isWorkletStarted, isInitialized)
     THEN /\ cancelledRef' = (effCleanup \/ cancelledRef)
          /\ effCleanup' = FALSE
          /\ UNCHANGED <<storeVars, spc, ipc, icred, cpc, lastOp, soleStart>>
     ELSE /\ cancelledRef' = FALSE
          /\ effCleanup' = TRUE
          /\ \E p \in SProcs :
               /\ \A q \in SProcs : q < p => spc[q] # "idle"
               /\ StartSync(p)
  /\ UNCHANGED <<mutexVars, walletVars, addrVars, pureVars, switchVars, hookVars>>

NextRuntime ==
  \/ \E p \in SProcs : StartWorkletCall(p)
  \/ \E p \in SProcs : StartImportDone(p)
  \/ \E p \in SProcs : StartRpcDone(p)
  \/ \E i \in IProcs, k \in Creds : InitializeWDKCall(i, k)
  \/ \E i \in IProcs : InitializeWDKDone(i)
  \/ Reset
  \/ CleanupCall
  \/ CleanupDone
  \/ ClearError
  \/ WorkletStartEffect


\* ==================================== WdkAppProvider and useWalletManager

WS(t, id, ex, er) == [type |-> t, id |-> id, exists |-> ex, err |-> er]
NotLoaded == WS("not_loaded", "none", FALSE, "none")

\* walletReducer with a default branch that resets
walletReducerDefaultResets(state, action) ==
  CASE action.type = "CHECK_WALLET" -> WS("checking", action.id, FALSE, "none")
    [] action.type = "WALLET_CHECKED" -> WS("loading", action.id, action.exists, "none")
    [] action.type = "START_LOADING" -> WS("loading", action.id, action.exists, "none")
    [] action.type = "WALLET_LOADED" -> WS("ready", action.id, FALSE, "none")
    [] action.type = "WALLET_ERROR" -> WS("error", action.id, FALSE, action.err)
    [] OTHER -> NotLoaded

\* walletReducer (WdkAppProvider.tsx lines 52-69); an action is a record like a state
walletReducer(state, action) ==
  CASE action.type = "CHECK_WALLET" -> WS("checking", action.id, FALSE, "none")
    [] action.type = "WALLET_CHECKED" -> WS("loading", action.id, action.exists, "none")
    [] action.type = "START_LOADING" -> WS("loading", action.id, action.exists, "none")
    [] action.type = "WALLET_LOADED" -> WS("ready", action.id, FALSE, "none")
    [] action.type = "WALLET_ERROR" -> WS("error", action.id, FALSE, action.err)
    [] action.type = "RESET" -> NotLoaded
    [] OTHER -> state

\* a settled promise: `how` is "resolved" or the error it rejected with
Settled(c, kind, id, how) == [call |-> c, kind |-> kind, id |-> id, how |-> how]

InitWallet ==
  /\ walletState = NotLoaded
  /\ activeWalletId = "none"
  /\ authErrorAge = -1
  /\ hasStored \in [Ids -> BOOLEAN]
  /\ credCache = {}
  /\ wpc = [c \in WProcs |-> "idle"]
  /\ wkind = [c \in WProcs |-> "none"]
  /\ wid = [c \in WProcs |-> "none"]
  /\ wsnap = [c \in WProcs |-> NotLoaded]
  /\ werr = [c \in WProcs |-> "none"]
  /\ nextW = 1
  /\ settled = Settled(0, "none", "none", "none")

\* the call returns or rejects: its locals are gone
Settle(c, kind, id, how) ==
  /\ settled' = Settled(c, kind, id, how)
  /\ wpc' = [wpc EXCEPT ![c] = "idle"]
  /\ wkind' = [wkind EXCEPT ![c] = "none"]
  /\ wid' = [wid EXCEPT ![c] = "none"]
  /\ wsnap' = [wsnap EXCEPT ![c] = NotLoaded]
  /\ werr' = [werr EXCEPT ![c] = "none"]

EndCall(c, how) == Settle(c, wkind[c], wid[c], how)

\* the call suspends at an await
Suspend(c, at, kind, id, snap, err) ==
  /\ wpc' = [wpc EXCEPT ![c] = at]
  /\ wkind' = [wkind EXCEPT ![c] = kind]
  /\ wid' = [wid EXCEPT ![c] = id]
  /\ wsnap' = [wsnap EXCEPT ![c] = snap]
  /\ werr' = [werr EXCEPT ![c] = err]
  /\ UNCHANGED settled

\* checkPrerequisites, lines 318-324: inside the cooldown window
InCooldown == authErrorAge # -1 /\ authErrorAge < AUTH_ERROR_COOLDOWN_MS

\* checkPrerequisites without the check of lines 300-302
PrereqOutcomeNoStartCheck(id) ==
  IF isInitialized /\ activeWalletId = id THEN "alreadyLoaded"
  ELSE IF InCooldown THEN "cooldown"
  ELSE "check"

\* checkPrerequisites, lines 299-328, up to the existence check: how it goes on
PrereqOutcome(id) ==
  IF ~isWorkletStarted THEN "notStarted"
  ELSE IF isInitialized /\ activeWalletId = id THEN "alreadyLoaded"
  ELSE IF InCooldown THEN "cooldown"
  ELSE "check"

\* checkPrerequisites, lines 304-310: the credentials cache after the
\* previous wallet's entry is cleared
PrereqCache(id) ==
  IF isWorkletStarted /\ activeWalletId # "none" /\ activeWalletId # id
  THEN credCache \ {activeWalletId}
  ELSE credCache

\* loadExisting, lines 343-357, after checkPrerequisites resolved: `snap` is
\* the walletState the closure captured, `ws` the reducer state by now
LoadAfterPrereq(c, id, snap, ws) ==
  IF snap.type = "loading" /\ ~snap.exists
  THEN /\ walletState' = ws
       /\ Settle(c, "load", id, "notExist")
  ELSE /\ walletState' =
            IF snap.type # "loading"
            THEN walletReducer(ws, WS("START_LOADING", id, TRUE, "none"))
            ELSE ws
       /\ Suspend(c, "awaitCreds", "load", id, snap, "none")

\* createNew, lines 428-433, after checkPrerequisites resolved
CreateAfterPrereq(c, id, snap, ws) ==
  /\ walletState' = walletReducer(ws, WS("START_LOADING", id, FALSE, "none"))
  /\ Suspend(c, "awaitCreds", "create", id, NotLoaded, "none")

\* what loadExisting reads of the walletState its closure captured (lines 343-345)
Snapshot(ws) == IF ws.type = "loading" THEN WS("loading", "none", ws.exists, "none") ELSE NotLoaded

\* loadExisting(identifier), lines 340-341 with checkPrerequisites up to its await
LoadExistingCall(c, id) ==
  /\ c = nextW
  /\ nextW' = nextW + 1
  /\ credCache' = PrereqCache(id)
  /\ LET out == PrereqOutcome(id)
     IN IF out \in {"notStarted", "cooldown"}
        THEN /\ settled' = Settled(c, "load", id, out)
             /\ UNCHANGED <<walletState, frameVars>>
        ELSE IF out = "alreadyLoaded"
        THEN LoadAfterPrereq(c, id, Snapshot(walletState), walletState)
        ELSE /\ walletState' = walletReducer(walletState, WS("CHECK_WALLET", id, FALSE, "none"))
             /\ Suspend(c, "awaitHasWallet", "load", id, Snapshot(walletState), "none")
  /\ UNCHANGED <<activeWalletId, authErrorAge, hasStored>>
  /\ UNCHANGED <<mutexVars, runtimeVars, addrVars, pureVars, switchVars, hookVars>>

\* createNew(identifier), lines 417-426 with checkPrerequisites up to its await
CreateNewCall(c, id) ==
  /\ c = nextW
  /\ nextW' = nextW + 1
  /\ credCache' = PrereqCache(id)
  /\ LET out == PrereqOutcome(id)
         ws0 == IF walletState.type = "error" /\ isWorkletStarted
                THEN walletReducer(walletState, WS("RESET", "none", FALSE, "none"))
                ELSE walletState
     IN IF out \in {"notStarted", "cooldown"}
        THEN /\ walletState' = ws0
             /\ settled' = Settled(c, "create", id, out)
             /\ UNCHANGED frameVars
        ELSE IF out = "alreadyLoaded"
        THEN CreateAfterPrereq(c, id, NotLoaded, ws0)
        ELSE /\ walletState' = walletReducer(ws0, WS("CHECK_WALLET", id, FALSE, "none"))
             /\ Suspend(c, "awaitHasWallet", "create", id, NotLoaded, "none")
  /\ UNCHANGED <<activeWalletId, authErrorAge, hasStored>>
  /\ UNCHANGED <<mutexVars, runtimeVars, addrVars, pureVars, switchVars, hookVars>>

\* `await hasWallet(identifier)` settles (checkPrerequisites, lines 329-336),
\* and loadExisting / createNew go on to initializeWallet
HasWalletDone(c) ==
  /\ wpc[c] = "awaitHasWallet"
  /\ UNCHANGED nextW
  /\ \E ok \in BOOLEAN :
       IF ok
       THEN LET ws1 == walletReducer(walletState,
                          WS("WALLET_CHECKED", wid[c], hasStored[wid[c]], "none"))
            IN IF wkind[c] = "load"
               THEN LoadAfterPrereq(c, wid[c], wsnap[c], ws1)
               ELSE CreateAfterPrereq(c, wid[c], wsnap[c], ws1)
       ELSE /\ walletState' = walletReducer(walletState,
                                 WS("WALLET_ERROR", wid[c], FALSE, "check"))
            /\ EndCall(c, "check")
  /\ UNCHANGED <<activeWalletId, authErrorAge, hasStored, credCache>>
  /\ UNCHANGED <<mutexVars, runtimeVars, addrVars, pureVars, switchVars, hookVars>>

\* loadExisting lines 359-363, createNew lines 435-439: initializeWallet resolved
WalletLoaded(c) ==
  /\ activeWalletId' = wid[c]
  /\ walletState' = walletReducer(walletState, WS("WALLET_LOADED", wid[c], FALSE, "none"))
  /\ EndCall(c, "resolved")
  /\ UNCHANGED authErrorAge

\* loadExisting lines 364-413, createNew lines 440-453: initializeWallet
\* rejected with a failure of kind `k`
WalletFailed(c, k) ==
  IF wkind[c] = "load" /\ k = "decrypt"
  THEN /\ credCache' = credCache \ {wid[c]}
       /\ Suspend(c, "awaitQuarantine", "load", wid[c], wsnap[c], k)
       /\ UNCHANGED <<walletState, activeWalletId, authErrorAge>>
  ELSE /\ authErrorAge' = IF k = "auth" THEN 0 ELSE authErrorAge
       /\ walletState' = walletReducer(walletState, WS("WALLET_ERROR", wid[c], FALSE, k))
       /\ EndCall(c, k)
       /\ UNCHANGED <<activeWalletId, credCache>>

\* how WalletSetupService's credential step can end: an existing wallet's
\* credentials come from the cache or from secure storage
CredentialOutcomes(kind, id) ==
  IF kind = "load" /\ ~hasStored[id] /\ id \notin credCache
  THEN {"auth", "other"}
  ELSE {"ok", "auth", "other"}

\* WalletSetupService.initializeWallet: the credentials are retrieved from
\* secure storage (load) or generated and stored (create), then handed to
\* WorkletLifecycleService.initializeWDK, whose synchronous part runs here
CredentialsDone(c) ==
  /\ wpc[c] = "awaitCreds"
  /\ UNCHANGED nextW
  /\ \E o \in CredentialOutcomes(wkind[c], wid[c]) :
       IF o # "ok"
       THEN /\ WalletFailed(c, o)
            /\ UNCHANGED <<storeVars, hasStored>>
       ELSE IF InitPreconditionFails(isWorkletStarted, hrpc)
       THEN /\ WalletFailed(c, "other")
            /\ UNCHANGED <<storeVars, hasStored>>
       ELSE IF InitIsNoOp(isInitialized, cred, CredOf(wid[c]))
       THEN /\ WalletLoaded(c)
            /\ credCache' = credCache \cup {wid[c]}
            /\ hasStored' = IF wkind[c] = "create"
                            THEN [hasStored EXCEPT ![wid[c]] = TRUE] ELSE hasStored
            /\ UNCHANGED storeVars
       ELSE /\ InitWDKBegin
            /\ credCache' = credCache \cup {wid[c]}
            /\ hasStored' = IF wkind[c] = "create"
                            THEN [hasStored EXCEPT ![wid[c]] = TRUE] ELSE hasStored
            /\ Suspend(c, "awaitInitWDK", wkind[c], wid[c], wsnap[c], "none")
            /\ UNCHANGED <<walletState, activeWalletId, authErrorAge>>
  /\ UNCHANGED <<spc, ipc, icred, cpc, effectVars, lastOp, soleStart>>
  /\ UNCHANGED <<mutexVars, addrVars, pureVars, switchVars, hookVars>>

\* the initializeWDK RPC of a wallet load settles
WalletInitDone(c) ==
  /\ wpc[c] = "awaitInitWDK"
  /\ UNCHANGED nextW
  /\ \E o \in {"ok", "decrypt", "other"} :
       IF o = "ok"
       THEN /\ InitWDKSucceeded(CredOf(wid[c]))
            /\ WalletLoaded(c)
            /\ UNCHANGED credCache
       ELSE /\ InitWDKFailed
            /\ WalletFailed(c, o)
  /\ UNCHANGED hasStored
  /\ UNCHANGED <<spc, ipc, icred, cpc, effectVars, lastOp, soleStart>>
  /\ UNCHANGED <<mutexVars, addrVars, pureVars, switchVars, hookVars>>

\* loadExisting lines 384-403: secureStorage.deleteWallet settled; the
\* cleanupError is dispatched and thrown, caught at line 399, and the
\* original error is dispatched and thrown
QuarantineDone(c) ==
  /\ wpc[c] = "awaitQuarantine"
  /\ UNCHANGED nextW
  /\ \E ok \in BOOLEAN :
       hasStored' = IF ok THEN [hasStored EXCEPT ![wid[c]] = FALSE] ELSE hasStored
  /\ walletState' =
       walletReducer(
         walletReducer(walletState, WS("WALLET_ERROR", wid[c], FALSE, "DecryptionError")),
         WS("WALLET_ERROR", wid[c], FALSE, werr[c]))
  /\ EndCall(c, werr[c])
  /\ UNCHANGED <<activeWalletId, authErrorAge, credCache>>
  /\ UNCHANGED <<mutexVars, runtimeVars, addrVars, pureVars, switchVars, hookVars>>

\* the effect of lines 291-296
WalletLoadedEffect ==
  /\ isInitialized
  /\ walletState.type = "loading"
  /\ walletState' = walletReducer(walletState,
                       WS("WALLET_LOADED", walletState.id, FALSE, "none"))
  /\ UNCHANGED <<activeWalletId, authErrorAge, hasStored, credCache, callVars>>
  /\ UNCHANGED <<mutexVars, runtimeVars, addrVars, pureVars, switchVars, hookVars>>

\* retry() returns: it is no numbered call, and two retry() in a row are
\* told apart by the numbers 0 and -1
Returned(how) ==
  Settled(IF settled.kind = "retry" /\ settled.call = 0 THEN -1 ELSE 0, "retry", "none", how)

\* retry() with an unconditional RESET
RetryLifecycleAlwaysResets(ws) == walletReducer(ws, WS("RESET", "none", FALSE, "none"))

\* retry(), lines 460-463: the lifecycle after the conditional RESET
RetryLifecycle(ws) ==
  IF ws.type = "error"
  THEN walletReducer(ws, WS("RESET", "none", FALSE, "none"))
  ELSE ws

\* retry(), lines 457-465
Retry ==
  /\ authErrorAge' = -1
  /\ walletState' = RetryLifecycle(walletState)
  /\ cancelledRef' = FALSE
  /\ settled' = Returned(IF walletState.type = "error" THEN "reset" ELSE "kept")
  /\ UNCHANGED <<activeWalletId, hasStored, credCache, frameVars, nextW>>
  /\ UNCHANGED <<storeVars, spc, ipc, icred, cpc, effDeps, effCleanup, lastOp, soleStart>>
  /\ UNCHANGED <<mutexVars, addrVars, pureVars, switchVars, hookVars>>

\* a WalletInfo (walletStore.ts)
WalletInfo(id, ex, act) == [identifier |-> id, exists |-> ex, isActive |-> act]

\* the walletList of switchWallet's setState (lines 322-328)
MarkActive(list, id) ==
  [i \in DOMAIN list |-> [list[i] EXCEPT !.isActive = (list[i].identifier = id)]]

\* the walletList of deleteWallet's setState (lines 202-208)
RemoveWallet(list, id) ==
  LET keep(w) == w.identifier # id IN SelectSeq(list, keep)

\* useWalletManager.switchWallet, lines 303-309, up to `await checkWallet`
SwitchWalletCall(c, id) ==
  /\ c = nextW
  /\ nextW' = nextW + 1
  /\ Suspend(c, "awaitCheck", "switch", id, NotLoaded, "none")
  /\ UNCHANGED <<walletState, activeWalletId, authErrorAge, hasStored, credCache>>
  /\ UNCHANGED <<mutexVars, runtimeVars, addrVars, pureVars, switchVars, hookVars>>

\* switchWallet, lines 309-337: checkWallet (lines 254-261) answered
SwitchWalletDone(c) ==
  /\ wpc[c] = "awaitCheck"
  /\ UNCHANGED nextW
  /\ \E ok \in BOOLEAN :
       IF ok /\ hasStored[wid[c]]
       THEN /\ credCache' = credCache \ {activeWalletId}
            /\ activeWalletId' = wid[c]
            /\ walletList' = MarkActive(walletList, wid[c])
            /\ EndCall(c, "resolved")
       ELSE /\ UNCHANGED <<credCache, activeWalletId, walletList>>
            /\ EndCall(c, "notExist")
  /\ UNCHANGED <<walletState, authErrorAge, hasStored>>
  /\ UNCHANGED <<mutexVars, runtimeVars, addrVars, pureVars, switchVars>>
  /\ UNCHANGED <<balVars, listCallVars, txVars>>

\* useWalletManager.deleteWallet, lines 193-200, up to its await
DeleteWalletCall(c, id) ==
  /\ c = nextW
  /\ nextW' = nextW + 1
  /\ Suspend(c, "awaitDelete", "delete", id, NotLoaded, "none")
  /\ UNCHANGED <<walletState, activeWalletId, authErrorAge, hasStored, credCache>>
  /\ UNCHANGED <<mutexVars, runtimeVars, addrVars, pureVars, switchVars, hookVars>>

\* deleteWallet, lines 200-218: WalletSetupService.deleteWallet settled
DeleteWalletDone(c) ==
  /\ wpc[c] = "awaitDelete"
  /\ UNCHANGED nextW
  /\ \E ok \in BOOLEAN :
       IF ok
       THEN /\ hasStored' = [hasStored EXCEPT ![wid[c]] = FALSE]
            /\ credCache' = credCache \ {wid[c]}
            /\ activeWalletId' = IF activeWalletId = wid[c] THEN "none" ELSE activeWalletId
            /\ walletList' = RemoveWallet(walletList, wid[c])
            /\ EndCall(c, "resolved")
       ELSE /\ UNCHANGED <<hasStored, credCache, activeWalletId, walletList>>
            /\ EndCall(c, "storage")
  /\ UNCHANGED <<walletState, authErrorAge>>
  /\ UNCHANGED <<mutexVars, runtimeVars, addrVars, pureVars, switchVars>>
  /\ UNCHANGED <<balVars, listCallVars, txVars>>

\* time passes
Tick ==
  /\ authErrorAge # -1
  /\ authErrorAge < AUTH_ERROR_COOLDOWN_MS
  /\ authErrorAge' = authErrorAge + ClockStep
  /\ UNCHANGED <<walletState, activeWalletId, hasStored, credCache, callVars>>
  /\ UNCHANGED <<mutexVars, runtimeVars, addrVars, pureVars, switchVars, hookVars>>

NextWallet ==
  \/ WorkletStartEffect
  \/ \E p \in SProcs : StartImportDone(p)
  \/ \E p \in SProcs : StartRpcDone(p)
  \/ \E c \in WProcs, id \in Ids : LoadExistingCall(c, id)
  \/ \E c \in WProcs, id \in Ids : CreateNewCall(c, id)
  \/ \E c \in WProcs : HasWalletDone(c)
  \/ \E c \in WProcs : CredentialsDone(c)
  \/ \E c \in WProcs : WalletInitDone(c)
  \/ \E c \in WProcs : QuarantineDone(c)
  \/ WalletLoadedEffect
  \/ Retry
  \/ \E c \in WProcs, id \in Ids : SwitchWalletCall(c, id)
  \/ \E c \in WProcs : SwitchWalletDone(c)
  \/ \E c \in WProcs, id \in Ids : DeleteWalletCall(c, id)
  \/ \E c \in WProcs : DeleteWalletDone(c)
  \/ Tick

\* the provider's entry points alone: loadExisting, createNew and retry
NextEntry ==
  \/ WorkletStartEffect
  \/ \E p \in SProcs : StartImportDone(p)
  \/ \E p \in SProcs : StartRpcDone(p)
  \/ \E c \in WProcs, id \in Ids : LoadExistingCall(c, id)
  \/ \E c \in WProcs, id \in Ids : CreateNewCall(c, id)
  \/ \E c \in WProcs : HasWalletDone(c)
  \/ \E c \in WProcs : CredentialsDone(c)
  \/ \E c \in WProcs : WalletInitDone(c)
  \/ \E c \in WProcs : QuarantineDone(c)
  \/ WalletLoadedEffect
  \/ Retry

\* =================================================== AddressService

\* what a getAddress call gave its caller: the address, how it was obtained
\* ("cache" | "rpc" | "threw") and the wallet active at that moment
Read(value, how, active) == [value |-> value, how |-> how, active |-> active]

InitAddress ==
  /\ addresses = NoAddress
  /\ apc = "idle"
  /\ lastRead = Read(NoAddress, "none", "none")
  /\ issuedWhile = "none"

\* the identity whose credentials the runtime was initialized with
OwnerOf(k) == CHOOSE id \in Ids : CredOf(id) = k

\* getAddress(network, accountIndex), lines 25-73: a cached address is
\* returned as it is; otherwise the runtime must be initialized and is asked
GetAddressCall ==
  /\ apc = "idle"
  /\ IF addresses # NoAddress
     THEN /\ lastRead' = Read(addresses, "cache", activeWalletId)
          /\ UNCHANGED <<addresses, apc, issuedWhile>>
     ELSE IF ~isInitialized \/ hrpc = 0
     THEN /\ lastRead' = Read(NoAddress, "threw", activeWalletId)
          /\ UNCHANGED <<addresses, apc, issuedWhile>>
     ELSE /\ apc' = "awaitRpc"
          /\ issuedWhile' = activeWalletId
          /\ UNCHANGED <<addresses, lastRead>>
  /\ UNCHANGED <<mutexVars, runtimeVars, walletVars, pureVars, switchVars, hookVars>>

\* getAddress, lines 75-118: the runtime answered, or the call failed; a
\* runtime without credentials has no address to give
GetAddressDone ==
  /\ apc = "awaitRpc"
  /\ apc' = "idle"
  /\ issuedWhile' = "none"
  /\ \E ok \in BOOLEAN :
       IF ok /\ cred # 0
       THEN /\ addresses' = Address(OwnerOf(cred), activeWalletId)
            /\ lastRead' = Read(addresses', "rpc", activeWalletId)
       ELSE /\ lastRead' = Read(NoAddress, "threw", activeWalletId)
            /\ UNCHANGED addresses
  /\ UNCHANGED <<mutexVars, runtimeVars, walletVars, pureVars, switchVars, hookVars>>

NextAddress ==
  \/ WorkletStartEffect
  \/ \E p \in SProcs : StartImportDone(p)
  \/ \E p \in SProcs : StartRpcDone(p)
  \/ \E c \in WProcs, id \in Ids : LoadExistingCall(c, id)
  \/ \E c \in WProcs : HasWalletDone(c)
  \/ \E c \in WProcs : CredentialsDone(c)
  \/ \E c \in WProcs : WalletInitDone(c)
  \/ \E c \in WProcs, id \in Ids : SwitchWalletCall(c, id)
  \/ \E c \in WProcs : SwitchWalletDone(c)
  \/ \E c \in WProcs : QuarantineDone(c)
  \/ GetAddressCall
  \/ GetAddressDone

\* ============================================ useWallet: switching effect

\* the wallet id `__temporary__`
TEMPORARY == "__temporary__"
\* the values of options.walletId
Requested == Ids \cup {"none", TEMPORARY}

InitSwitch ==
  /\ reqWalletId = "none"
  /\ isSwitchingWallet = FALSE
  /\ switchingToWalletId = "none"
  /\ switchWalletError = "none"
  /\ isTemporaryWallet = FALSE
  /\ uDeps = <<>>
  /\ uCleanup = 0
  /\ upc = [u \in URuns |-> "idle"]
  /\ ucancelled = [u \in URuns |-> FALSE]
  /\ utarget = [u \in URuns |-> "none"]

\* shouldSkipWalletSwitch without the test of lines 45-48
shouldSkipWalletSwitchSameTargetOnly(requested, active, switching, switchingTo) ==
  \/ requested = "none" \/ requested = active
  \/ switching /\ switchingTo = requested

\* shouldSkipWalletSwitch (useWallet.ts lines 29-51)
shouldSkipWalletSwitch(requested, active, switching, switchingTo) ==
  \/ requested = "none" \/ requested = active
  \/ switching /\ switchingTo = requested
  \/ switching /\ switchingTo # requested

\* the effect's dependencies (line 230)
SwitchDeps == <<reqWalletId, activeWalletId, isSwitchingWallet, switchingToWalletId>>

\* the component is rendered with another options.walletId
ChangeRequested(id) ==
  /\ id # reqWalletId
  /\ reqWalletId' = id
  /\ UNCHANGED <<isSwitchingWallet, switchingToWalletId, switchWalletError,
                 isTemporaryWallet, uDeps, uCleanup, upc, ucancelled, utarget>>
  /\ UNCHANGED <<mutexVars, runtimeVars, walletVars, addrVars, pureVars, hookVars>>

\* the previous run's cleanup function (lines 227-229)
SwitchCleanup == [u \in URuns |-> ucancelled[u] \/ u = uCleanup]

\* The effect of lines 172-230 runs after a render in which a dependency
\* changed: the previous run's cleanup first, then the body, which calls
\* switchWallet() (lines 195-204, up to its await) unless it returns before.
\* isOperationInProgress() answers either way.  The call takes the lowest
\* idle run: runs only name invocations.
SwitchEffect ==
  /\ uDeps # SwitchDeps
  /\ uDeps' = SwitchDeps
  /\ IF shouldSkipWalletSwitch(reqWalletId, activeWalletId,
                               isSwitchingWallet, switchingToWalletId)
     THEN /\ isTemporaryWallet' = FALSE
          /\ ucancelled' = SwitchCleanup
          /\ uCleanup' = 0
          /\ UNCHANGED <<isSwitchingWallet, switchingToWalletId, switchWalletError,
                         upc, utarget>>
     ELSE \E inProgress \in BOOLEAN :
          IF inProgress
          THEN /\ ucancelled' = SwitchCleanup
               /\ uCleanup' = 0
               /\ UNCHANGED <<isSwitchingWallet, switchingToWalletId, switchWalletError,
                              isTemporaryWallet, upc, utarget>>
          ELSE IF reqWalletId = TEMPORARY
          THEN /\ isTemporaryWallet' = TRUE
               /\ ucancelled' = SwitchCleanup
               /\ uCleanup' = 0
               /\ UNCHANGED <<isSwitchingWallet, switchingToWalletId, switchWalletError,
                              upc, utarget>>
          ELSE \E u \in URuns :
               /\ upc[u] = "idle"
               /\ \A v \in URuns : v < u => upc[v] # "idle"
               /\ isSwitchingWallet' = TRUE
               /\ switchingToWalletId' = reqWalletId
               /\ switchWalletError' = "none"
               /\ upc' = [upc EXCEPT ![u] = "awaitSwitch"]
               /\ utarget' = [utarget EXCEPT ![u] = reqWalletId]
               /\ ucancelled' = [SwitchCleanup EXCEPT ![u] = FALSE]
               /\ uCleanup' = u
               /\ UNCHANGED isTemporaryWallet
  /\ UNCHANGED reqWalletId
  /\ UNCHANGED <<mutexVars, runtimeVars, walletVars, addrVars, pureVars, hookVars>>

\* the active wallet after WalletSwitchingService.switchToWallet(target) has
\* settled: the target on success, the previous one on failure
ActiveAfterSwitch(ok, target, active) == IF ok THEN target ELSE active

\* WalletSwitchingService.switchToWallet settles and switchWallet() runs to
\* its end (lines 202-221)
SwitchSettles(u) ==
  /\ upc[u] = "awaitSwitch"
  /\ \E ok \in BOOLEAN :
       /\ activeWalletId' = ActiveAfterSwitch(ok, utarget[u], activeWalletId)
       /\ isTemporaryWallet' = IF ok /\ ~ucancelled[u] THEN FALSE ELSE isTemporaryWallet
       /\ switchWalletError' = IF ~ok /\ ~ucancelled[u] THEN "failed" ELSE switchWalletError
  /\ isSwitchingWallet' = IF ucancelled[u] THEN isSwitchingWallet ELSE FALSE
  /\ switchingToWalletId' = IF ucancelled[u] THEN switchingToWalletId ELSE "none"
  /\ upc' = [upc EXCEPT ![u] = "idle"]
  /\ utarget' = [utarget EXCEPT ![u] = "none"]
  /\ ucancelled' = [ucancelled EXCEPT ![u] = FALSE]
  /\ uCleanup' = IF uCleanup = u THEN 0 ELSE uCleanup
  /\ UNCHANGED <<reqWalletId, uDeps>>
  /\ UNCHANGED <<walletState, authErrorAge, hasStored, credCache, callVars>>
  /\ UNCHANGED <<mutexVars, runtimeVars, addrVars, pureVars, hookVars>>

NextSwitch ==
  \/ \E id \in Requested : ChangeRequested(id)
  \/ SwitchEffect
  \/ \E u \in URuns : SwitchSettles(u)

\* ========================================================= pure functions

InitPure ==
  /\ fn = "none"
  /\ fnArgs = <<>>
  /\ fnResult = "none"

\* the workletState argument of getCombinedStatus; `error` is "none" (null),
\* "" (the empty string) or a message
WorkletState(started, loading, err) ==
  [isWorkletStarted |-> started, isLoading |-> loading, error |-> err]

\* JavaScript's truthiness of a `string | null`
Truthy(str) == str \notin {"none", ""}

\* getCombinedStatus (initializationState.ts lines 129-159; the provider's
\* copy, WdkAppProvider.tsx lines 74-104, is the same text)
getCombinedStatus(workletState, wState) ==
  IF Truthy(workletState.error) THEN "error"
  ELSE IF ~workletState.isWorkletStarted
  THEN (IF workletState.isLoading THEN "starting_worklet" ELSE "idle")
  ELSE CASE wState.type = "not_loaded" -> "worklet_ready"
         [] wState.type \in {"checking", "loading"} -> "loading_wallet"
         [] wState.type = "ready" -> "ready"
         [] wState.type = "error" -> "error"
         [] OTHER -> "idle"

\* the arguments the functions are called with
ErrorValues == {"none", "", "failed"}
WorkletStates ==
  {WorkletState(st, ld, e) : st \in BOOLEAN, ld \in BOOLEAN, e \in ErrorValues}
Causes == {"auth", "other"}
WalletStates ==
  {NotLoaded}
  \cup {WS("checking", id, FALSE, "none") : id \in Ids}
  \cup {WS("loading", id, e, "none") : id \in Ids, e \in BOOLEAN}
  \cup {WS("ready", id, FALSE, "none") : id \in Ids}
  \cup {WS("error", id, FALSE, c) : id \in Ids \cup {"none"}, c \in Causes}
WalletActions ==
  {WS("CHECK_WALLET", id, FALSE, "none") : id \in Ids}
  \cup {WS(t, id, e, "none") : t \in {"WALLET_CHECKED", "START_LOADING"},
                               id \in Ids, e \in BOOLEAN}
  \cup {WS("WALLET_LOADED", id, FALSE, "none") : id \in Ids}
  \cup {WS("WALLET_ERROR", id, FALSE, c) : id \in Ids \cup {"none"}, c \in Causes}
  \cup {WS("RESET", "none", FALSE, "none"), WS("UNKNOWN", "none", FALSE, "none")}

\* a call getCombinedStatus(workletState, walletState)
CallGetCombinedStatus ==
  /\ \E w \in WorkletStates, ws \in WalletStates :
       /\ fn' = "getCombinedStatus"
       /\ fnArgs' = <<w, ws>>
       /\ fnResult' = getCombinedStatus(w, ws)
  /\ UNCHANGED <<mutexVars, runtimeVars, walletVars, addrVars, switchVars, hookVars>>

\* a call walletReducer(state, action)
CallWalletReducer ==
  /\ \E ws \in WalletStates, a \in WalletActions :
       /\ fn' = "walletReducer"
       /\ fnArgs' = <<ws, a>>
       /\ fnResult' = walletReducer(ws, a)
  /\ UNCHANGED <<mutexVars, runtimeVars, walletVars, addrVars, switchVars, hookVars>>

NextPure ==
  \/ CallGetCombinedStatus
  \/ CallWalletReducer

\* ======================================================= useWdkBalanceSync

\* the values of balanceRefreshInterval
RefreshIntervals == {0, 30000}

\* the arguments of the hook (tokenConfigs is fixed)
BalanceProps ==
  [autoFetchBalances : BOOLEAN, balanceRefreshInterval : RefreshIntervals,
   walletInitialized : BOOLEAN, isReady : BOOLEAN]

\* the hook before its first commit: the refs and the state of lines 31-35
InitBalance ==
  /\ bProps = [autoFetchBalances |-> FALSE, balanceRefreshInterval |-> 0,
               walletInitialized |-> FALSE, isReady |-> FALSE]
  /\ bDepsAuto = <<>>
  /\ bDepsInterval = <<>>
  /\ interval = FALSE
  /\ isFetchingRef = FALSE
  /\ isMountedRef = TRUE
  /\ hasCompletedInitialBalanceFetch = FALSE
  /\ isFetchingBalances = FALSE
  /\ fpc = [f \in FProcs |-> "idle"]

\* the hook has committed once
Committed == bDepsAuto # <<>>

\* the dependency lists of the two effects (lines 112 and 156)
DepsAuto(p) == <<p.autoFetchBalances, p.walletInitialized, p.isReady>>
DepsInterval(p) == <<p.autoFetchBalances, p.balanceRefreshInterval, p.isReady>>

\* safeSetIsFetchingBalances (lines 50-54)
safeSetIsFetchingBalances(value) ==
  isFetchingBalances' = IF isMountedRef THEN value ELSE isFetchingBalances

\* the fetchAllBalances calls that have not settled
FetchesInFlight == {f \in FProcs : fpc[f] # "idle"}

\* `isFetchingRef.current = true`, then the run up to `await fetchAllBalances()`
\* (lines 62-68, 90-96, 131-137); `locked` is isFetchingRef.current as the
\* caller finds it
AcquireAndFetch(who, locked) ==
  /\ ~locked
  /\ \E f \in FProcs :
       /\ fpc[f] = "idle"
       /\ \A g \in FProcs : g < f => fpc[g] # "idle"
       /\ fpc' = [fpc EXCEPT ![f] = who]
  /\ isFetchingRef' = TRUE
  /\ safeSetIsFetchingBalances(TRUE)

\* the cleanup of the interval effect (lines 151-155) runs when the effect is
\* about to run again or the hook unmounts, if the last run set the timer up
IntervalCleanupRuns(rerun) == rerun /\ interval

\* a render with arguments p and the commit that follows it: the cleanup of
\* the interval effect, then the initial-fetch effect (lines 79-112), then the
\* interval effect (lines 115-156), each only if its dependencies changed
Render(p) ==
  /\ isMountedRef
  /\ p # bProps \/ ~Committed
  /\ bProps' = p
  /\ bDepsAuto' = DepsAuto(p)
  /\ bDepsInterval' = DepsInterval(p)
  /\ LET rerunInterval == DepsInterval(p) # bDepsInterval
         released == IntervalCleanupRuns(rerunInterval)
         locked == IF released THEN FALSE ELSE isFetchingRef
         runAuto == /\ DepsAuto(p) # bDepsAuto
                    /\ p.autoFetchBalances /\ p.walletInitialized /\ p.isReady
                    /\ ~hasCompletedInitialBalanceFetch
     IN /\ interval' = IF rerunInterval
                       THEN /\ p.autoFetchBalances
                            /\ p.balanceRefreshInterval > 0
                            /\ p.isReady
                       ELSE interval
        /\ IF runAuto /\ ~locked /\ \E f \in FProcs : fpc[f] = "idle"
           THEN AcquireAndFetch("initial", locked)
           ELSE /\ isFetchingRef' = locked
                /\ UNCHANGED <<isFetchingBalances, fpc>>
  /\ UNCHANGED <<isMountedRef, hasCompletedInitialBalanceFetch>>
  /\ UNCHANGED <<mutexVars, runtimeVars, walletVars, addrVars, pureVars, switchVars, listVars, txVars>>

\* the hook unmounts: the cleanups of lines 39-41 and 151-155
Unmount ==
  /\ isMountedRef
  /\ Committed
  /\ isMountedRef' = FALSE
  /\ interval' = FALSE
  /\ isFetchingRef' = IF IntervalCleanupRuns(TRUE) THEN FALSE ELSE isFetchingRef
  /\ UNCHANGED <<bProps, bDepsAuto, bDepsInterval, hasCompletedInitialBalanceFetch,
                 isFetchingBalances, fpc>>
  /\ UNCHANGED <<mutexVars, runtimeVars, walletVars, addrVars, pureVars, switchVars, listVars, txVars>>

\* refreshBalances() up to its await (lines 56-68); the early return of lines
\* 57-60 changes nothing
RefreshBalances ==
  /\ Committed
  /\ bProps.walletInitialized
  /\ AcquireAndFetch("manual", isFetchingRef)
  /\ UNCHANGED <<bProps, bDepsAuto, bDepsInterval, interval, isMountedRef,
                 hasCompletedInitialBalanceFetch>>
  /\ UNCHANGED <<mutexVars, runtimeVars, walletVars, addrVars, pureVars, switchVars, listVars, txVars>>

\* the timer of the interval effect fires (lines 120-137); the early returns
\* of lines 122-129 change nothing
IntervalTick ==
  /\ interval
  /\ isMountedRef
  /\ isInitialized
  /\ AcquireAndFetch("tick", isFetchingRef)
  /\ UNCHANGED <<bProps, bDepsAuto, bDepsInterval, interval, isMountedRef,
                 hasCompletedInitialBalanceFetch>>
  /\ UNCHANGED <<mutexVars, runtimeVars, walletVars, addrVars, pureVars, switchVars, listVars, txVars>>

\* fetchAllBalances call f settles: the rest of the try and the finally of
\* its caller (lines 69-75, 97-108, 138-148)
FetchSettles(f) ==
  /\ fpc[f] # "idle"
  /\ fpc' = [fpc EXCEPT ![f] = "idle"]
  /\ \E ok \in BOOLEAN :
       hasCompletedInitialBalanceFetch' =
         IF fpc[f] = "initial" /\ ok /\ isMountedRef
         THEN TRUE ELSE hasCompletedInitialBalanceFetch
  /\ isFetchingRef' = FALSE
  /\ safeSetIsFetchingBalances(FALSE)
  /\ UNCHANGED <<bProps, bDepsAuto, bDepsInterval, interval, isMountedRef>>
  /\ UNCHANGED <<mutexVars, runtimeVars, walletVars, addrVars, pureVars, switchVars, listVars, txVars>>

NextBalance ==
  \/ \E p \in SProcs : StartWorkletCall(p)
  \/ \E p \in SProcs : StartImportDone(p)
  \/ \E p \in SProcs : StartRpcDone(p)
  \/ \E i \in IProcs, k \in Creds : InitializeWDKCall(i, k)
  \/ \E i \in IProcs : InitializeWDKDone(i)
  \/ \E p \in BalanceProps : Render(p)
  \/ Unmount
  \/ RefreshBalances
  \/ IntervalTick
  \/ \E f \in FProcs : FetchSettles(f)

\* =================================== useWalletManager: the wallet list

\* the identifier refreshWalletList checks when it is given none
DEFAULT == "default"

\* the values of knownIdentifiers
KnownIdentifiers == {<<>>, <<"alice">>, <<"bob">>, <<"alice", "bob">>}

InitList ==
  /\ walletList = <<>>
  /\ rpc = "idle"
  /\ rActive = "none"
  /\ rKnown = <<>>
  /\ kpc = "idle"
  /\ kid = "none"

\* refreshWalletList(knownIdentifiers) up to its await (lines 266-278)
RefreshWalletListCall(known) ==
  /\ rpc = "idle"
  /\ rpc' = "awaitCheck"
  /\ rActive' = activeWalletId
  /\ rKnown' = known
  /\ UNCHANGED <<walletList, kpc, kid, balVars, txVars>>
  /\ UNCHANGED <<mutexVars, runtimeVars, walletVars, addrVars, pureVars, switchVars>>

\* the list refreshWalletList builds (lines 275-290); checkWallet answers
\* false when secure storage fails (lines 254-261), and `defaultExists` is
\* what it answers for the default identifier
RefreshedList(known, active, reachable, defaultExists) ==
  IF known = <<>>
  THEN <<WalletInfo(DEFAULT, defaultExists, active = DEFAULT)>>
  ELSE [i \in DOMAIN known |->
          WalletInfo(known[i], reachable /\ hasStored[known[i]], active = known[i])]

\* refreshWalletList, lines 278-297: the checks answered
RefreshWalletListDone ==
  /\ rpc = "awaitCheck"
  /\ rpc' = "idle"
  /\ \E reachable \in BOOLEAN, defaultExists \in BOOLEAN :
       walletList' = RefreshedList(rKnown, rActive, reachable, defaultExists)
  /\ rActive' = "none"
  /\ rKnown' = <<>>
  /\ UNCHANGED <<kpc, kid, balVars, txVars>>
  /\ UNCHANGED <<mutexVars, runtimeVars, walletVars, addrVars, pureVars, switchVars>>

\* createWallet(walletIdentifier) up to `await checkWallet` (lines 343-349)
CreateWalletCall(id) ==
  /\ kpc = "idle"
  /\ kpc' = "awaitCheck"
  /\ kid' = id
  /\ UNCHANGED <<walletList, rpc, rActive, rKnown, balVars, txVars>>
  /\ UNCHANGED <<mutexVars, runtimeVars, walletVars, addrVars, pureVars, switchVars>>

\* createWallet, lines 349-355: checkWallet answered
CreateWalletChecked ==
  /\ kpc = "awaitCheck"
  /\ \E reachable \in BOOLEAN :
       IF reachable /\ hasStored[kid]
       THEN kpc' = "idle" /\ kid' = "none"
       ELSE kpc' = "awaitCreate" /\ UNCHANGED kid
  /\ UNCHANGED <<walletList, rpc, rActive, rKnown, balVars, txVars>>
  /\ UNCHANGED <<mutexVars, runtimeVars, walletVars, addrVars, pureVars, switchVars>>

\* what WalletSetupService.createNewWallet leaves in secure storage and in
\* the credentials cache when it resolves
CreatedWallet(id) ==
  /\ hasStored' = [hasStored EXCEPT ![id] = TRUE]
  /\ credCache' = credCache \cup {id}

\* createWallet, lines 355-370: WalletSetupService.createNewWallet settled
CreateWalletDone ==
  /\ kpc = "awaitCreate"
  /\ kpc' = "idle"
  /\ kid' = "none"
  /\ \E ok \in BOOLEAN :
       IF ok
       THEN /\ CreatedWallet(kid)
            /\ walletList' = Append(walletList, WalletInfo(kid, TRUE, FALSE))
       ELSE UNCHANGED <<hasStored, credCache, walletList>>
  /\ UNCHANGED <<walletState, activeWalletId, authErrorAge, callVars>>
  /\ UNCHANGED <<rpc, rActive, rKnown, balVars, txVars>>
  /\ UNCHANGED <<mutexVars, runtimeVars, addrVars, pureVars, switchVars>>

\* no call of the provider or of useWalletManager is pending
NoCallPending ==
  /\ \A c \in WProcs : wpc[c] = "idle"
  /\ rpc = "idle"
  /\ kpc = "idle"

\* the operations called one after the other, each once the one before it
\* has settled
LoadExistingNext(c, id) == NoCallPending /\ LoadExistingCall(c, id)
CreateNewNext(c, id) == NoCallPending /\ CreateNewCall(c, id)
SwitchWalletNext(c, id) == NoCallPending /\ SwitchWalletCall(c, id)
DeleteWalletNext(c, id) == NoCallPending /\ DeleteWalletCall(c, id)
RefreshWalletListNext(known) == NoCallPending /\ RefreshWalletListCall(known)
CreateWalletNext(id) ==
  /\ NoCallPending
  /\ Len(walletList) < MaxListLen
  /\ CreateWalletCall(id)

\* the operations that set activeWalletId or rebuild the wallet list
NextList ==
  \/ WorkletStartEffect
  \/ \E p \in SProcs : StartImportDone(p)
  \/ \E p \in SProcs : StartRpcDone(p)
  \/ \E c \in WProcs, id \in Ids : LoadExistingNext(c, id)
  \/ \E c \in WProcs, id \in Ids : CreateNewNext(c, id)
  \/ \E c \in WProcs : HasWalletDone(c)
  \/ \E c \in WProcs : CredentialsDone(c)
  \/ \E c \in WProcs : WalletInitDone(c)
  \/ \E c \in WProcs : QuarantineDone(c)
  \/ \E c \in WProcs, id \in Ids : SwitchWalletNext(c, id)
  \/ \E c \in WProcs : SwitchWalletDone(c)
  \/ \E c \in WProcs, id \in Ids : DeleteWalletNext(c, id)
  \/ \E c \in WProcs : DeleteWalletDone(c)
  \/ \E known \in KnownIdentifiers : RefreshWalletListNext(known)
  \/ RefreshWalletListDone
  \/ \E id \in Ids : CreateWalletNext(id)
  \/ CreateWalletChecked
  \/ CreateWalletDone

\* ================== useWallet.refreshTransactions and TransactionService

\* the networks of the wallet, and the key of setAllTransactionsLoading
Networks == {"ethereum", "bitcoin"}
ALL == "__all__"

\* the values of the `networks` argument; <<>> stands for none given
NetworkLists ==
  {<<>>, <<"ethereum">>, <<"bitcoin">>, <<"ethereum", "bitcoin">>}

InitTx ==
  /\ transactionLoading = {}
  /\ tpc = [t \in TProcs |-> "idle"]
  /\ trest = [t \in TProcs |-> <<>>]
  /\ taddrs = [t \in TProcs |-> {}]

\* TransactionService.setTransactionLoading (lines 189-211)
setTransactionLoading(flags, network, loading) ==
  IF loading THEN flags \cup {network} ELSE flags \ {network}

\* TransactionService.setAllTransactionsLoading (lines 219-243)
setAllTransactionsLoading(flags, loading) ==
  IF loading THEN flags \cup {ALL} ELSE {}

\* TransactionService.isAnyTransactionLoading (lines 276-286)
isAnyTransactionLoading == transactionLoading # {}

\* the flags of lines 312-319
FlagsAtCall(flags, networks) ==
  IF Len(networks) > 0
  THEN flags \cup {networks[i] : i \in DOMAIN networks}
  ELSE setAllTransactionsLoading(flags, TRUE)

\* Object.keys(walletAddresses), in a fixed order
KeysOf(addrs) ==
  IF addrs = Networks THEN <<"ethereum", "bitcoin">>
  ELSE IF addrs = {} THEN <<>>
  ELSE <<CHOOSE n \in addrs : TRUE>>

\* the loop of lines 327-358 from the head of `nets` to its next await: a
\* network without an address is skipped, and its finally clears its flag
RECURSIVE LoopToAwait(_, _, _)
LoopToAwait(nets, addrs, flags) ==
  IF nets = <<>> THEN [rest |-> <<>>, flags |-> flags]
  ELSE IF Head(nets) \in addrs THEN [rest |-> nets, flags |-> flags]
  ELSE LoopToAwait(Tail(nets), addrs, setTransactionLoading(flags, Head(nets), FALSE))

\* the call goes on to its next await, or leaves the loop and runs the
\* finally of lines 362-365
Proceed(t, nets, addrs, flags) ==
  LET r == LoopToAwait(nets, addrs, flags)
  IN IF r.rest = <<>>
     THEN /\ transactionLoading' = setAllTransactionsLoading(r.flags, FALSE)
          /\ tpc' = [tpc EXCEPT ![t] = "idle"]
          /\ trest' = [trest EXCEPT ![t] = <<>>]
          /\ taddrs' = [taddrs EXCEPT ![t] = {}]
     ELSE /\ transactionLoading' = r.flags
          /\ tpc' = [tpc EXCEPT ![t] = "awaitTxns"]
          /\ trest' = [trest EXCEPT ![t] = r.rest]
          /\ taddrs' = [taddrs EXCEPT ![t] = addrs]

\* refreshTransactions(networks) up to its first await (lines 307-351), called
\* from a render whose `addresses` has an address for the networks in addrs
RefreshTransactionsCall(t, networks, addrs) ==
  /\ tpc[t] = "idle"
  /\ \A u \in TProcs : u < t => tpc[u] # "idle"
  /\ Proceed(t, IF Len(networks) > 0 THEN networks ELSE KeysOf(addrs), addrs,
             FlagsAtCall(transactionLoading, networks))
  /\ UNCHANGED <<mutexVars, runtimeVars, walletVars, addrVars, pureVars, switchVars>>
  /\ UNCHANGED <<balVars, listVars>>

\* the getTransactions call of refreshTransactions call t settles (lines
\* 343-358): whether it resolved or rejected, the finally clears the flag of
\* its network and the loop goes on
TransactionsFetched(t) ==
  /\ tpc[t] = "awaitTxns"
  /\ Proceed(t, Tail(trest[t]), taddrs[t],
             setTransactionLoading(transactionLoading, Head(trest[t]), FALSE))
  /\ UNCHANGED <<mutexVars, runtimeVars, walletVars, addrVars, pureVars, switchVars>>
  /\ UNCHANGED <<balVars, listVars>>

NextTx ==
  \/ \E t \in TProcs, networks \in NetworkLists, addrs \in SUBSET Networks :
       RefreshTransactionsCall(t, networks, addrs)
  \/ \E t \in TProcs : TransactionsFetched(t)

Init ==
  /\ InitMutex /\ InitRuntime /\ InitWallet /\ InitAddress /\ InitPure /\ InitSwitch
  /\ InitBalance /\ InitList /\ InitTx

\* each specification starts from the initial states that differ in what its
\* actions read: the mutex option for the mutex, the stored wallets for the
\* wallet operations
InitQueueOff == Init /\ queueOpt = FALSE
InitAllStored == Init /\ hasStored = [id \in Ids |-> TRUE]
InitFixed == InitQueueOff /\ hasStored = [id \in Ids |-> TRUE]

SpecMutex == InitAllStored /\ [][NextMutex]_vars
SpecRuntime == InitFixed /\ [][NextRuntime]_vars
SpecWallet == InitQueueOff /\ [][NextWallet]_vars
SpecEntry == InitFixed /\ [][NextEntry]_vars
SpecAddress == InitQueueOff /\ [][NextAddress]_vars
SpecPure == InitFixed /\ [][NextPure]_vars
SpecSwitch == InitFixed /\ [][NextSwitch]_vars
SpecBalance == InitFixed /\ [][NextBalance]_vars
SpecList == InitFixed /\ [][NextList]_vars
SpecTx == InitFixed /\ [][NextTx]_vars

\* ------------------------------------------ claims, WorkletLifecycleService

\* a start call passed startWorklet's guards in this step
StartBegins == \E p \in SProcs : spc[p] = "idle" /\ spc'[p] # "idle"
\* this step is an invocation of startWorklet
StartInvoked ==
  /\ lastOp' \in {"start:began", "start:noop"}
  /\ (lastOp' # lastOp \/ StartBegins)

C7_OneStartInFlight ==
  Cardinality({p \in SProcs : spc[p] = "awaitStart"}) <= 1

\* C8: isInitialized = true implies isWorkletStarted = true.
C8_InitializedImpliesStarted ==
  isInitialized => isWorkletStarted

\* ---------------------------------------------------------- claims, useMutex

Issued(c) == c < nextCall
Executing == {c \in Calls : mpc[c] = "running"}

\* C1: under any interleaving of acquire() calls on one mutex (queuing disabled
\* or enabled) at most one operation body is executing at any moment, and once
\* every issued call has settled the lock is false.
C1_MutualExclusion ==
  /\ Cardinality(Executing) <= 1
  /\ ((\A c \in Calls : Issued(c) => mpc[c] = "settled") => ~lockedRef)

\* an operation body is executing while a later call has been turned away or queued
C1_Witness ==
  \E c, d \in Calls :
    /\ c < d /\ mpc[c] = "running"
    /\ mpc[d] \in {"settled", "queued"} /\ outcome[d] = "none"

\* C2: an acquire(op) made while the mutex is unlocked runs op; the lock is
\* released whether op resolves or throws; a throw rejects the caller, and the
\* lock is already false when the promise rejects, so a later acquire() runs.
C2_DirectRunReleases ==
  [][\A c \in Calls :
       /\ (mpc[c] = "idle" /\ mpc'[c] # "idle" /\ ~lockedRef)
            => (mpc'[c] = "running" /\ lockedRef')
       /\ (mpc[c] = "bodyDone" /\ mpc'[c] = "settled" /\ ~viaQueue[c])
            => /\ ~lockedRef'
               /\ result'[c] = (IF outcome[c] = "throw" THEN "rejected" ELSE "resolved")
       /\ (result[c] = "pending" /\ result'[c] = "rejected") => ~lockedRef']_vars

\* an operation threw, its caller was rejected, and a later acquire() is running
C2_Witness ==
  \E c, d \in Calls :
    /\ c < d /\ outcome[c] = "throw" /\ result[c] = "rejected"
    /\ mpc[d] = "running" /\ ~viaQueue[d]

\* C3: with queuing disabled, an acquire(op) made while the mutex is locked
\* resolves without ever running op and without rejecting, and changes neither
\* the lock nor the queue.
C3_SilentNoOp ==
  [][\A c \in Calls :
       /\ (~queueOpt /\ lockedRef /\ mpc[c] = "idle" /\ mpc'[c] # "idle")
            => /\ mpc'[c] = "settled" /\ result'[c] = "resolved"
               /\ outcome'[c] = "none"
               /\ lockedRef' = lockedRef /\ queueRef' = queueRef
       /\ (mpc[c] = "settled")
            => (mpc'[c] = "settled" /\ outcome'[c] = outcome[c] /\ result'[c] = result[c])]_vars

\* a call was turned away while another operation holds the lock
C3_Witness ==
  /\ ~queueOpt
  /\ \E c, d \in Calls :
       /\ c < d /\ mpc[c] \in {"running", "bodyDone"}
       /\ mpc[d] = "settled" /\ outcome[d] = "none" /\ result[d] = "resolved"

\* C4: with queuing enabled operations execute strictly in the order their
\* acquire() calls were issued: no operation issued later is executing while an
\* earlier-issued operation is still waiting in the queue.
C4_StrictFifo ==
  queueOpt =>
    \A c, d \in Calls : (c < d /\ mpc[c] = "queued") => mpc[d] # "running"

\* C5: with queuing enabled every queued acquire(op) eventually runs op without
\* further acquire() calls being needed: whenever no operation body and no
\* continuation is pending (nothing is left that could start a queued
\* operation), no call is still waiting in the queue.
C5_QueueDrained ==
  (queueOpt /\ \A c \in Calls : mpc[c] \notin {"running", "bodyDone"})
    => \A c \in Calls : mpc[c] # "queued"

\* ------------------------------------------------ claims about the wallet

\* a wallet load of identity `id` is in flight: the call is inside
\* WalletSetupService.initializeWallet
Loading(c, id) ==
  /\ wkind[c] \in {"load", "create"}
  /\ wid[c] = id
  /\ wpc[c] \in {"awaitCreds", "awaitInitWDK"}

\* C9: at every moment at most one wallet load (the credential
\* initialization started by loadExisting or createNew) is in flight for a
\* given identity
C9_OneLoadPerIdentity ==
  \A id \in Ids : Cardinality({c \in WProcs : Loading(c, id)}) <= 1

Ready(id) == WS("ready", id, FALSE, "none")

\* C10: in every reachable state, if activeWalletId is an identity B then the
\* wallet lifecycle state is Ready(B)
C10_ActiveImpliesReady ==
  activeWalletId # "none" => walletState = Ready(activeWalletId)

\* a wallet call's promise settles in this step
Settles == settled' # settled

\* a loadExisting, createNew or switchWallet call rejects in this step, for a
\* reason other than the preconditions of checkPrerequisites
RejectsPastPrereq ==
  /\ Settles
  /\ settled'.kind \in {"load", "create", "switch"}
  /\ settled'.how \notin {"resolved", "notStarted", "cooldown"}

\* C11: any loadExisting, createNew or switchWallet call that rejects leaves
\* activeWalletId as it was and leaves the wallet lifecycle in Error (stated
\* here for the rejections that come after the precondition checks)
C11_RejectLeavesError ==
  [][RejectsPastPrereq =>
       /\ activeWalletId' = activeWalletId
       /\ walletState'.type = "error"]_vars

\* call c is issued in this step
IssueStep(c) == nextW = c /\ nextW' = c + 1

\* call c takes a step: it is issued, or it resumes after an await
TakesStep(c) == IssueStep(c) \/ (wpc[c] # "idle" /\ wpc'[c] # wpc[c])

\* the operation and the identifier of the call taking a step
StepKind(c) ==
  IF IssueStep(c) THEN (IF wpc'[c] # "idle" THEN wkind'[c] ELSE settled'.kind) ELSE wkind[c]
StepId(c) ==
  IF IssueStep(c) THEN (IF wpc'[c] # "idle" THEN wid'[c] ELSE settled'.id) ELSE wid[c]

\* C12: while identity A is active, a switch or load that targets an identity
\* missing from secure storage leaves activeWalletId = A and clears no cache
\* of A, its cached credentials included
C12_MissingTargetKeepsActive ==
  [][\A c \in WProcs :
       ( /\ TakesStep(c)
         /\ StepKind(c) \in {"load", "switch"}
         /\ ~hasStored[StepId(c)]
         /\ activeWalletId \notin {"none", StepId(c)} )
       => /\ activeWalletId' = activeWalletId
          /\ activeWalletId \in credCache => activeWalletId \in credCache']_vars

\* C13: when the runtime is not started, loadExisting(id) and createNew(id)
\* reject with the precondition error without contacting secure storage or
\* the runtime (no await is begun), and the wallet lifecycle state,
\* activeWalletId and the cooldown timestamp are unchanged
C13_NotStartedRejects ==
  [][\A c \in WProcs :
       (IssueStep(c) /\ StepKind(c) \in {"load", "create"} /\ ~isWorkletStarted)
       => /\ settled'.call = c
          /\ settled'.how = "notStarted"
          /\ UNCHANGED <<walletState, activeWalletId, authErrorAge>>
          /\ UNCHANGED <<frameVars, hasStored, storeVars>>]_vars

C13_Witness ==
  /\ ~isWorkletStarted
  /\ settled.kind \in {"load", "create"}
  /\ settled.how = "notStarted"
  /\ walletState = NotLoaded

\* the existence check of loadExisting call c answers in this step that no
\* wallet is stored
CheckReportsMissing(c) ==
  /\ wpc[c] = "awaitHasWallet"
  /\ wkind[c] = "load"
  /\ wpc'[c] # wpc[c]
  /\ ~hasStored[wid[c]]
  /\ ~(Settles /\ settled'.how = "check")

\* C14: when the runtime is started and the existence check reports that no
\* wallet exists, loadExisting(id) rejects with a "does not exist" error
\* without attempting credential initialization, and the lifecycle ends in
\* Error(id, cause)
C14_MissingWalletRejects ==
  [][\A c \in WProcs :
       CheckReportsMissing(c)
       => /\ settled'.call = c
          /\ settled'.how = "notExist"
          /\ wpc'[c] = "idle"
          /\ walletState'.type = "error"
          /\ walletState'.id = wid[c]]_vars

\* the decryption recovery of loadExisting call c ends in this step
RecoveryEnds(c) == wpc[c] = "awaitQuarantine" /\ wpc'[c] # wpc[c]

\* C15: when loadExisting(id) fails with a decryption failure, the credential
\* cache entry of id is evicted, the error thrown to the caller is the
\* distinguished DecryptionError and not the original error, and the
\* lifecycle ends in Error(id, that DecryptionError)
C15_DecryptionErrorThrown ==
  [][\A c \in WProcs :
       RecoveryEnds(c)
       => /\ wid[c] \notin credCache'
          /\ settled'.call = c
          /\ settled'.how = "DecryptionError"
          /\ walletState' = WS("error", wid[c], FALSE, "DecryptionError")]_vars

\* C16: after an authentication failure, every loadExisting / createNew
\* attempt made less than AUTH_ERROR_COOLDOWN_MS later rejects without
\* contacting secure storage or the runtime and without any other side
\* effect; an attempt made after the window is not rejected by the cooldown
C16_CooldownRejectsCleanly ==
  [][\A c \in WProcs :
       (IssueStep(c) /\ StepKind(c) \in {"load", "create"})
       => /\ InCooldown =>
               /\ settled'.call = c
               /\ settled'.how \in {"cooldown", "notStarted"}
               /\ UNCHANGED <<walletState, activeWalletId, authErrorAge>>
               /\ UNCHANGED <<credCache, hasStored, frameVars, storeVars>>
          /\ ~InCooldown => ~(settled'.call = c /\ settled'.how = "cooldown")]_vars

\* C17: a read of cached address data made while identity B is active never
\* returns a value that was fetched and cached while a different identity A
\* was active
C17_NoCrossIdentityRead ==
  (lastRead.how = "cache" /\ lastRead.active # "none" /\ lastRead.value.while # "none")
  => lastRead.value.while = lastRead.active

\* ------------------------------------------- claims about pure functions

\* the projection of the specification, from the claim's words
Projection(runtime, wallet) ==
  IF runtime.error # "none" THEN "error"
  ELSE IF ~runtime.isWorkletStarted
  THEN (IF runtime.isLoading THEN "starting_worklet" ELSE "idle")
  ELSE IF wallet.type = "not_loaded" THEN "worklet_ready"
  ELSE IF wallet.type \in {"checking", "loading"} THEN "loading_wallet"
  ELSE IF wallet.type = "ready" THEN "ready"
  ELSE "error"

\* C18: getCombinedStatus(runtime, wallet) equals the reference projection
\* for every input: Error if runtime.error is set; otherwise Idle or
\* StartingRuntime while the runtime is not started; otherwise by the wallet
\* state
C18_StatusIsProjection ==
  fn = "getCombinedStatus" => fnResult = Projection(fnArgs[1], fnArgs[2])

\* the transition table of the specification, from the claim's words
TransitionTable(state, event) ==
  IF event.type = "CHECK_WALLET"
  THEN [type |-> "checking", id |-> event.id, exists |-> FALSE, err |-> "none"]
  ELSE IF event.type \in {"WALLET_CHECKED", "START_LOADING"}
  THEN [type |-> "loading", id |-> event.id, exists |-> event.exists, err |-> "none"]
  ELSE IF event.type = "WALLET_LOADED"
  THEN [type |-> "ready", id |-> event.id, exists |-> FALSE, err |-> "none"]
  ELSE IF event.type = "WALLET_ERROR"
  THEN [type |-> "error", id |-> event.id, exists |-> FALSE, err |-> event.err]
  ELSE IF event.type = "RESET"
  THEN [type |-> "not_loaded", id |-> "none", exists |-> FALSE, err |-> "none"]
  ELSE state

\* C19: walletReducer is total and matches the transition table for every
\* (state, event) pair; an event of any other type returns the state unchanged
C19_ReducerIsTable ==
  fn = "walletReducer"
  => /\ fnResult = TransitionTable(fnArgs[1], fnArgs[2])
     /\ fnResult \in WalletStates

C19_Witness ==
  /\ fn = "walletReducer"
  /\ fnArgs[2].type = "UNKNOWN"
  /\ fnArgs[1].type = "ready"
  /\ fnResult = fnArgs[1]

\* retry() is called in this step
RetryStep == Settles /\ settled'.kind = "retry"

\* C20: retry() sets the cooldown timestamp to null, moves the lifecycle to
\* NotLoaded if and only if it was Error and otherwise leaves it unchanged,
\* clears the cancellation flag, makes no secure-storage or runtime call and
\* changes neither the runtime state nor activeWalletId
C20_RetryRearms ==
  [][RetryStep =>
       /\ authErrorAge' = -1
       /\ walletState' = (IF walletState.type = "error" THEN NotLoaded ELSE walletState)
       /\ cancelledRef' = FALSE
       /\ UNCHANGED <<storeVars, activeWalletId>>
       /\ UNCHANGED <<hasStored, credCache, frameVars, spc, ipc, cpc, apc>>]_vars

C20_Witness ==
  /\ settled.kind = "retry"
  /\ settled.how = "reset"
  /\ walletState = NotLoaded
  /\ authErrorAge = -1
  /\ activeWalletId # "none"


\* ------------------------------------------------------------------ C21
\* the workletStore holds its initial values and the wallet store's caches are
\* empty
AllCleared ==
  /\ hrpc = 0
  /\ ~isWorkletStarted
  /\ ~isInitialized
  /\ ~isLoading
  /\ error = "none"
  /\ cred = 0
  /\ addresses = NoAddress

\* this step is a call of reset(): the only step that names reset as the last
\* operation and moves no call and no effect
ResetStep ==
  /\ lastOp' = "reset"
  /\ UNCHANGED <<spc, ipc, icred, cpc, effectVars>>

\* this step is cleanup() running to its end
CleanupCompletes == cpc = "awaitCleanup" /\ cpc' = "idle"

InitInvokedWith(k) ==
  /\ lastOp' \in {"init:throw", "init:noop", "init:began"}
  /\ UNCHANGED <<spc, cpc, effectVars>>
  /\ IF lastOp' = "init:began"
     THEN \E i \in IProcs : ipc[i] = "idle" /\ ipc'[i] = "awaitInit" /\ icred'[i] = k
     ELSE UNCHANGED <<ipc, icred>>

\* initializeWDK called when the store is initialized with the pair it is
\* given issues no initializeWDK RPC and leaves the store unchanged
InitSamePairIsNoOp ==
  [][\A k \in Creds :
       (InitInvokedWith(k) /\ isInitialized /\ isWorkletStarted /\ hrpc # 0 /\ cred = k)
         => UNCHANGED <<storeVars, ipc>>]_vars

\* C22: initializeWDK with the pair the runtime is already initialized with
\* issues no RPC and leaves the store unchanged, and when two calls with the
\* same pair race only one initializeWDK RPC is issued: no two pending RPCs
\* carry the same pair.
C22_SamePairInitOnce ==
  \A i, j \in IProcs :
    (i # j /\ ipc[i] = "awaitInit" /\ ipc[j] = "awaitInit") => icred[i] # icred[j]


\* ------------------------------------------------------------------ C23
\* the workletStart and initializeWDK RPCs that are pending
StartRpcsPending == {p \in SProcs : spc[p] = "awaitStart"}
InitRpcsPending == {i \in IProcs : ipc[i] = "awaitInit"}

\* C23: at most one runtime start-or-initialize call is in flight: while
\* isLoading is true, at most one workletStart or initializeWDK RPC is pending.
C23_OneRuntimeCallInFlight ==
  isLoading => Cardinality(StartRpcsPending) + Cardinality(InitRpcsPending) <= 1


\* ------------------------------------------------------------------ C24
\* this step is a run of the provider's worklet-start effect in which
\* startWorklet passes its guards: a start nobody requested
EffectStartsWorklet == effDeps' # effDeps /\ StartBegins

\* C24: after a startWorklet failure (started and loading false, handles
\* cleared, error set) no further start is issued automatically: the
\* provider's effect does not begin a start while the store holds the error of
\* a failed start.
C24_NoAutomaticRestart ==
  [][EffectStartsWorklet => error # "start"]_vars


\* ------------------------------------------------------------------ C25
\* this step takes the wallet lifecycle into Ready
EntersReady == walletState'.type = "ready" /\ walletState' # walletState

\* C25: every transition of the wallet lifecycle into Ready(id) is taken from
\* Loading(id, _) with the same id.
C25_ReadyFromLoadingSameId ==
  [][EntersReady
       => /\ walletState.type = "loading"
          /\ walletState.id = walletState'.id]_vars


\* ------------------------------------------------------------------ C26
\* the switchToWallet calls of the useWallet instance that are pending
SwitchesPending == {u \in URuns : upc[u] = "awaitSwitch"}

\* this step is a run of the effect that calls switchToWallet
SwitchIssued == \E u \in URuns : upc[u] = "idle" /\ upc'[u] = "awaitSwitch"

\* C26: a switch request is a no-op when the target equals activeWalletId or
\* when any switch is already in flight: the effect calls switchToWallet only
\* for a target other than the active wallet and with no call pending, so at
\* most one switchToWallet call is in flight at any time.
C26_OneSwitchInFlight ==
  [][SwitchIssued
       => /\ reqWalletId # activeWalletId
          /\ SwitchesPending = {}
          /\ Cardinality(SwitchesPending') = 1]_vars

\* a switch is pending, the effect has re-run since (its `cancelled` is set)
\* and another wallet is requested
C26_Witness ==
  /\ \E u \in URuns : upc[u] = "awaitSwitch" /\ ucancelled[u] /\ utarget[u] # reqWalletId
  /\ reqWalletId \in Ids
  /\ reqWalletId # activeWalletId
  /\ uDeps = SwitchDeps

\* ------------------------------------------------------------------ C27
\* C27: whenever a switch started by useWallet has settled, isSwitchingWallet
\* is false and switchingToWalletId is null again, also when the effect that
\* started it was re-run or cleaned up in the meantime: with no switch
\* pending, no switching-in-flight state is left.
C27_SwitchingStateCleared ==
  SwitchesPending = {} => (~isSwitchingWallet /\ switchingToWalletId = "none")


\* ------------------------------------------------------------------ C28
\* C28: loadExisting(id) called when the runtime is initialized and
\* activeWalletId = id short-circuits: it resolves in the step it is called
\* in, without an existence check, credential retrieval or initializeWDK call
\* (no await is begun), and leaves the wallet lifecycle state unchanged.
C28_AlreadyLoadedShortCircuits ==
  [][\A c \in WProcs :
       ( /\ IssueStep(c)
         /\ StepKind(c) = "load"
         /\ isWorkletStarted /\ isInitialized
         /\ activeWalletId = StepId(c) )
       => /\ settled'.call = c
          /\ settled'.how = "resolved"
          /\ UNCHANGED <<walletState, frameVars, storeVars>>]_vars


\* ------------------------------------------------------------------ C29
\* the decryption-failure recovery of loadExisting call c ends in this step:
\* the credentials of its identity are quarantined
Quarantines(c) == wpc[c] = "awaitQuarantine" /\ wpc'[c] = "idle"

\* deleteWallet call c resolves in this step
Deletes(c) ==
  /\ wpc[c] = "awaitDelete"
  /\ wpc'[c] = "idle"
  /\ settled'.how = "resolved"

\* C29: after the credentials of identity X are quarantined or X is deleted,
\* no cached address belonging to X remains in the wallet store.
C29_QuarantinePurgesCaches ==
  [][\A c \in WProcs :
       (Quarantines(c) \/ Deletes(c)) => addresses'.of # wid[c]]_vars


\* ------------------------------------------------------------------ C30
\* a startWorklet call settles in this step after the provider's effect
\* cleanup has set cancelledRef
CancelledStartSettles ==
  /\ cancelledRef
  /\ \E p \in SProcs : spc[p] # "idle" /\ spc'[p] = "idle"

\* a switch of useWallet settles in this step after its run's cleanup has set
\* `cancelled`
CancelledSwitchSettles ==
  \E u \in URuns : upc[u] = "awaitSwitch" /\ ucancelled[u] /\ upc'[u] = "idle"

\* C30: when a runtime start or a wallet switch settles after it was
\* cancelled, its continuation mutates nothing: the workletStore and the
\* active wallet are as they were.
C30_CancelledAppliesNothing ==
  [][(CancelledStartSettles \/ CancelledSwitchSettles)
       => UNCHANGED <<storeVars, activeWalletId>>]_vars


\* ------------------------------------------------------------------ C37
\* a startWorklet call is past its guards, or an initializeWDK RPC is pending
RuntimeCallInFlight ==
  \/ \E p \in SProcs : spc[p] # "idle"
  \/ InitRpcsPending # {}

\* C37: isLoading is true whenever a startWorklet or initializeWDK call is in
\* flight.
C37_LoadingWhileInFlight == RuntimeCallInFlight => isLoading


\* ------------------------------------------------------------------ C32
\* C32: whenever activeWalletId is an identity X and the runtime is
\* initialized, the credentials the runtime was last initialized with are
\* those of X.
C32_ActiveMatchesCredentials ==
  (activeWalletId # "none" /\ isInitialized) => cred = CredOf(activeWalletId)


\* ------------------------------------------------------------------ C33
\* a loadExisting or createNew call for identity id resolves in this step:
\* its credential initialization has completed successfully
InitializationResolves(id) ==
  /\ Settles
  /\ settled'.kind \in {"load", "create"}
  /\ settled'.id = id
  /\ settled'.how = "resolved"

\* C33: the wallet lifecycle becomes Ready(id) only when a credential
\* initialization for id completes successfully: WALLET_LOADED is the only
\* way into Ready, so the lifecycle enters Ready(id) in the step in which a
\* loadExisting or createNew call for id resolves, and not before.
C33_ReadyOnlyAfterInit ==
  [][EntersReady => InitializationResolves(walletState'.id)]_vars


\* ------------------------------------------------------------------ C34
\* no loadExisting or createNew call is pending
AllLoadsSettled ==
  \A c \in WProcs : wpc[c] # "idle" => wkind[c] \notin {"load", "create"}

\* C34: once every loadExisting / createNew call has settled, the wallet
\* lifecycle is not Checking or Loading.
C34_SettledNotInProgress ==
  AllLoadsSettled => walletState.type \notin {"checking", "loading"}


\* ------------------------------------------------------------------ C35
\* the provider's combined status (WdkAppProvider.tsx lines 232-241)
Status ==
  getCombinedStatus(WorkletState(isWorkletStarted, isLoading, error), walletState)

\* the last call to settle was a loadExisting or createNew that rejected, and
\* the store holds the error of a failed initializeWDK call
FailedAtInitialize ==
  /\ settled.kind \in {"load", "create"}
  /\ settled.how \notin {"resolved", "notStarted", "cooldown", "notExist", "check"}
  /\ walletState.type = "error"
  /\ error = "init"

\* C35: after a loadExisting or createNew failure caused by the runtime
\* initialize call, retry() returns the combined status to RuntimeReady while
\* the runtime is still started.
C35_RetryClearsErrorStatus ==
  [][(RetryStep /\ FailedAtInitialize /\ isWorkletStarted)
       => Status' = "worklet_ready"]_vars


\* ------------------------------------------------------------------ C36
\* call c is issued and rejects at the cooldown check of checkPrerequisites
RejectedByCooldown(c) ==
  /\ IssueStep(c)
  /\ settled'.call = c
  /\ settled'.kind \in {"load", "create"}
  /\ settled'.how = "cooldown"

\* C36: a loadExisting or createNew call rejected by the cooldown check
\* leaves the lifecycle state exactly as it was before the call; an existing
\* Error state is not cleared.
C36_CooldownKeepsLifecycle ==
  [][\A c \in WProcs : RejectedByCooldown(c) => walletState' = walletState]_vars


\* ------------------------------------------------------------------ C38
\* the pending getAddress call stores the address it fetched (lines 95-105)
CachesFetchedAddress ==
  /\ apc = "awaitRpc"
  /\ apc' = "idle"
  /\ lastRead'.how = "rpc"
  /\ addresses' = lastRead'.value

\* C38: a getAddress call issued before a change of the active identity never
\* writes the address it fetched into the cache after that change.
C38_NoLateAddressWrite ==
  [][CachesFetchedAddress => activeWalletId = issuedWhile]_vars


\* ------------------------------------------------------------------ C31
\* C31: at most one fetchAllBalances call is in flight at any time, across
\* manual refreshBalances calls, the initial automatic fetch and the interval
\* ticks, also when the interval effect is cleaned up and created again.
C31_OneFetchInFlight == Cardinality(FetchesInFlight) <= 1


\* ------------------------------------------------------------------ C39
\* C39: every walletList entry has isActive = true exactly when its identifier
\* equals activeWalletId, after any sequence of loadExisting, createNew,
\* switchWallet, createWallet, deleteWallet and refreshWalletList.
C39_ListMarksActive ==
  \A i \in DOMAIN walletList :
    walletList[i].isActive <=> (walletList[i].identifier = activeWalletId)


\* ------------------------------------------------------------------ C40
\* a refreshTransactions call for the wallet has not settled
RefreshInFlight == \E t \in TProcs : tpc[t] # "idle"

\* C40: while any refreshTransactions call for the wallet is in flight,
\* isAnyTransactionLoading is true for it, and it is false once all of them
\* have settled, also when two calls overlap.
C40_LoadingWhileRefreshing == isAnyTransactionLoading <=> RefreshInFlight

=============================================================================
